---------------------------- MODULE Spec2Model ----------------------------
(***************************************************************************)
(* Model of the statistics pipeline: MethodSelector (method_selector.py),  *)
(* EDA_Diagnosis (eda.py) and Inference (inference.py).                    *)
(*                                                                         *)
(* Numbers.  A Python float is a record [kind, v]: kind "num" carries the  *)
(* value v, kind "nan" is NaN (every comparison with it is False) and kind *)
(* "none" is Python's None.  p-values are counted in percent (0..100);     *)
(* skewness and kurtosis are counted in quarters (4 stands for 1.0).       *)
(*                                                                         *)
(* Tables.  A pandas DataFrame is modelled by the labels, row by row, of   *)
(* the column that group_col names; NA is a missing label.  A group_col    *)
(* that names no column of the table raises KeyError and is not modelled.  *)
(* The value column is not modelled: what scipy's Levene test returns is   *)
(* a choice among the p-values it can produce.                             *)
(***************************************************************************)
EXTENDS Integers, Sequences, FiniteSets, TLC

VARIABLES data, group_col, id_col, paired, homogeneity, recommendation,
          clean_data, moments, multimodality, distribution,
          inf_data, inference

vars == <<data, group_col, id_col, paired, homogeneity, recommendation,
          clean_data, moments, multimodality, distribution,
          inf_data, inference>>

selectorVars == <<data, group_col, id_col, paired, homogeneity, recommendation>>

edaVars == <<clean_data, moments, multimodality, distribution>>

inferenceVars == <<inf_data, inference>>

(***************************************************************************)
(* Bounds of the model.                                                    *)
(***************************************************************************)
\* Most rows of a table.
MaxRows == 3

\* Largest absolute skewness / kurtosis, in quarters.
MaxMoment == 6

\* Most peaks the density estimate shows.
MaxPeaks == 3

\* Largest absolute minimum of a sample.
MaxMin == 1

(***************************************************************************)
(* Python values.                                                          *)
(***************************************************************************)
\* Python's None, where a string or a tri-state boolean is expected.
None == "None"

\* The tri-state values homogeneity_check takes: a bool or None.
PyTrue == "True"

PyFalse == "False"

TriState == {PyTrue, PyFalse, None}

Num(n) == [kind |-> "num", v |-> n]

NaN == [kind |-> "nan", v |-> 0]

NoneNum == [kind |-> "none", v |-> 0]

\* x > c and x < c on floats: False when x is NaN.
Gt(x, c) == x.kind = "num" /\ x.v > c

Lt(x, c) == x.kind = "num" /\ x.v < c

\* bool(x) of a str-or-None value: None and the empty string are falsy.
Truthy(x) == x # None /\ x # ""

\* A Python bool as the tri-state value that holds it.
PyBool(b) == IF b THEN PyTrue ELSE PyFalse

(***************************************************************************)
(* Tables.                                                                 *)
(***************************************************************************)
\* A missing group label (pandas NaN).
NA == "<NA>"

Labels == {"A", "B", "C"}

Cells == Labels \cup {NA}

RECURSIVE SeqsUpTo(_, _)
SeqsUpTo(S, n) ==
    IF n = 0 THEN {<<>>}
    ELSE LET shorter == SeqsUpTo(S, n - 1)
         IN  shorter \cup {Append(s, c) : s \in {t \in shorter : Len(t) = n - 1}, c \in S}

\* A DataFrame with its group column, or something that is not a DataFrame.
DataFrame(rows) == [frame |-> TRUE, rows |-> rows]

NotAFrame == [frame |-> FALSE, rows |-> <<>>]

DataValues == {NotAFrame} \cup {DataFrame(r) : r \in SeqsUpTo(Cells, MaxRows)}

GroupColValues == {None, "", "Group"}

IdColValues == {None, "", "SubjectID"}

\* isinstance(self.data, pd.DataFrame)
IsDataFrame(d) == d.frame

\* Series.unique(): the distinct values in order of first appearance, NaN
\* included (once).
RECURSIVE unique(_)
unique(rows) ==
    IF rows = <<>> THEN <<>>
    ELSE LET init == unique(SubSeq(rows, 1, Len(rows) - 1))
             last == rows[Len(rows)]
         IN  IF \E i \in 1..Len(init) : init[i] = last THEN init
             ELSE Append(init, last)

\* Series.nunique(): the number of distinct values, NaN not counted.
nunique(rows) == Cardinality({rows[i] : i \in 1..Len(rows)} \ {NA})

\* self.data[self.data[group_col] == g]: the rows whose label equals g;
\* NaN == NaN is False, so for g = NaN no row is selected.
RowsOfGroup(rows, g) == {i \in 1..Len(rows) : g # NA /\ rows[i] = g}


(***************************************************************************)
(* MethodSelector                                                          *)
(***************************************************************************)
\* The selector object: the four fields __init__ stores.
Self == [data |-> data, group_col |-> group_col, id_col |-> id_col, paired |-> paired]

\* The significance level of Levene's test, in percent (p > 0.05).
LeveneAlpha == 5

\* p-values a test can return, in percent: both sides of the level and the ends.
PValues == {Num(0), Num(LeveneAlpha - 1), Num(LeveneAlpha), Num(LeveneAlpha + 1), Num(100)}

\* groups = self.data[self.group_col].unique()
groups_of(self) == unique(self.data.rows)

\* group_data: one partition (the rows of that label) per entry of groups.
group_data(self) ==
    LET groups == groups_of(self)
    IN  [i \in 1..Len(groups) |-> RowsOfGroup(self.data.rows, groups[i])]

\* stats.levene(*group_data): the p-values it can return.  An empty sample
\* makes the statistic NaN; the values of the value column (not modelled)
\* decide the rest, NaN included when dropna() empties a partition.
levene(samples) ==
    IF \E i \in 1..Len(samples) : samples[i] = {} THEN {NaN}
    ELSE PValues \cup {NaN}

\* The verdict returned without running the test.
NullVerdict == [called |-> TRUE, Levene_p |-> NoneNum, Homogeneity |-> None, levene_args |-> <<>>]

\* check_homogeneity, with p the p-value Levene's test returns when it runs.
\* levene_args records the samples handed to stats.levene (<<>>: not run).
check_homogeneity(self, p) ==
    IF ~IsDataFrame(self.data) \/ self.group_col = None THEN NullVerdict
    ELSE IF Len(groups_of(self)) < 2 THEN NullVerdict
    ELSE [called |-> TRUE, Levene_p |-> p,
          Homogeneity |-> PyBool(Gt(p, LeveneAlpha)),
          levene_args |-> group_data(self)]

\* As is_homogeneous_of, with None read as False.
is_homogeneous_none_false(homogeneity_check) ==
    IF homogeneity_check # None THEN homogeneity_check = PyTrue ELSE FALSE

\* is_homogeneous = homogeneity_check if homogeneity_check is not None else True
is_homogeneous_of(homogeneity_check) ==
    IF homogeneity_check # None THEN homogeneity_check = PyTrue ELSE TRUE

\* As has_id_col, by truthiness: if self.id_col
has_id_col_truthy(self) == Truthy(self.id_col)

\* if self.id_col is not None
has_id_col(self) == self.id_col # None

\* Branch 1: hierarchical data.
hierarchical(is_normal) ==
    IF is_normal
    THEN [method |-> "LMM",
          advice |-> "Data has hierarchical structure (ID column detected)."
                     \o " Recommend Linear Mixed Model (LMM)."]
    ELSE [method |-> "GLMM_or_LMM",
          advice |-> "Data has hierarchical structure (ID column detected)."
                     \o " Data is non-normal. Recommend Generalized Linear Mixed Model (GLMM) or Transformation + LMM."]

\* As paired_data, with the two outcomes exchanged.
paired_data_swapped(is_normal) ==
    IF ~is_normal
    THEN [method |-> "Paired T-test", advice |-> "Data is Normal and Paired."]
    ELSE [method |-> "Wilcoxon Signed-Rank", advice |-> "Data is Non-Normal and Paired."]

\* Branch 2: paired data.
paired_data(is_normal) ==
    IF is_normal
    THEN [method |-> "Paired T-test", advice |-> "Data is Normal and Paired."]
    ELSE [method |-> "Wilcoxon Signed-Rank", advice |-> "Data is Non-Normal and Paired."]

\* num_groups: 1 unless the data is a DataFrame and group_col is truthy.
num_groups_of(self) ==
    IF IsDataFrame(self.data) /\ Truthy(self.group_col)
    THEN nunique(self.data.rows)
    ELSE 1

two_groups(is_normal, is_homogeneous) ==
    IF is_normal /\ is_homogeneous
    THEN [method |-> "Independent T-test", advice |-> "Normality and Homogeneity assumptions met."]
    ELSE IF is_normal /\ ~is_homogeneous
    THEN [method |-> "Welch's T-test", advice |-> "Normality met, but Variance is unequal."]
    ELSE [method |-> "Mann-Whitney U", advice |-> "Normality assumption violated."]

many_groups(is_normal, is_homogeneous) ==
    IF is_normal /\ is_homogeneous
    THEN [method |-> "One-way ANOVA", advice |-> "Normality and Homogeneity met."]
    ELSE IF is_normal /\ ~is_homogeneous
    THEN [method |-> "Welch ANOVA", advice |-> "Normality met, Variance unequal."]
    ELSE [method |-> "Kruskal-Wallis", advice |-> "Normality violated."]

\* The single-group branch sets method only: advice keeps its value.
single_group(is_normal, advice) ==
    IF is_normal
    THEN [method |-> "One-sample T-test", advice |-> advice]
    ELSE [method |-> "One-sample Wilcoxon", advice |-> advice]

\* As independent_groups, with the last branch an elif num_groups == 1.
independent_groups_elif(num_groups, is_normal, is_homogeneous, initial) ==
    IF num_groups = 2 THEN two_groups(is_normal, is_homogeneous)
    ELSE IF num_groups > 2 THEN many_groups(is_normal, is_homogeneous)
    ELSE IF num_groups = 1 THEN single_group(is_normal, initial.advice)
    ELSE initial

\* Branches 3 to 5: independent groups, by their number.
independent_groups(num_groups, is_normal, is_homogeneous, initial) ==
    IF num_groups = 2 THEN two_groups(is_normal, is_homogeneous)
    ELSE IF num_groups > 2 THEN many_groups(is_normal, is_homogeneous)
    ELSE single_group(is_normal, initial.advice)

\* recommend_method: the (method, advice) pair returned.
recommend_method(self, normality_check, homogeneity_check) ==
    LET initial == [method |-> "Unknown", advice |-> "No recommendation."]
        is_normal == normality_check
        is_homogeneous == is_homogeneous_of(homogeneity_check)
    IN  IF has_id_col(self) THEN hierarchical(is_normal)
        ELSE IF self.paired THEN paired_data(is_normal)
        ELSE independent_groups(num_groups_of(self), is_normal, is_homogeneous, initial)

(***************************************************************************)
(* EDA_Diagnosis                                                           *)
(*                                                                         *)
(* clean_data is the sample after dropna(), modelled by what pandas and    *)
(* scipy compute from it: its skewness and kurtosis (NaN for a sample too  *)
(* small to have one), its minimum, the Shapiro-Wilk p-value and the       *)
(* number of peaks find_peaks counts on the density estimate.  A call that *)
(* raises returns nothing and is not a step.                               *)
(***************************************************************************)
\* skew_val > 1 / < -1, in quarters.
SkewHigh == 4

\* skew_val > 0.5 / < -0.5, in quarters.
SkewModerate == 2

\* kurt_val > 1 / < -1, in quarters.
KurtHigh == 4

\* shapiro_p > 0.05, in percent.
ShapiroAlpha == 5

\* self.clean_data.skew() > 1 / < -1 in check_distribution, in quarters.
AdviceSkew == 4

MomentValues == {Num(m) : m \in -MaxMoment..MaxMoment} \cup {NaN}

ShapiroValues == {Num(ShapiroAlpha - 1), Num(ShapiroAlpha), Num(ShapiroAlpha + 1), NaN}

\* The samples: a sample with no skewness (fewer than 3 values) has no
\* kurtosis and no Shapiro-Wilk p-value either.
Samples ==
    {c \in [skew : MomentValues, kurt : MomentValues,
            min : {Num(m) : m \in -MaxMin..MaxMin},
            shapiro_p : ShapiroValues, num_peaks : 0..MaxPeaks] :
        c.skew = NaN => (c.kurt = NaN /\ c.shapiro_p = NaN)}

\* As skew_desc_of, with >= and <= at the outer thresholds.
skew_desc_inclusive(skew_val) ==
    IF skew_val.kind = "num" /\ skew_val.v >= SkewHigh THEN "Highly Positively Skewed"
    ELSE IF Gt(skew_val, SkewModerate) THEN "Moderately Positively Skewed"
    ELSE IF skew_val.kind = "num" /\ skew_val.v <= -SkewHigh THEN "Highly Negatively Skewed"
    ELSE IF Lt(skew_val, -SkewModerate) THEN "Moderately Negatively Skewed"
    ELSE "Symmetric"

\* skew_desc: "Symmetric" unless one of the chained comparisons holds.
skew_desc_of(skew_val) ==
    IF Gt(skew_val, SkewHigh) THEN "Highly Positively Skewed"
    ELSE IF Gt(skew_val, SkewModerate) THEN "Moderately Positively Skewed"
    ELSE IF Lt(skew_val, -SkewHigh) THEN "Highly Negatively Skewed"
    ELSE IF Lt(skew_val, -SkewModerate) THEN "Moderately Negatively Skewed"
    ELSE "Symmetric"

\* kurt_desc: "Mesokurtic" unless one of the chained comparisons holds.
kurt_desc_of(kurt_val) ==
    IF Gt(kurt_val, KurtHigh) THEN "Leptokurtic (Heavy tails/Peaked)"
    ELSE IF Lt(kurt_val, -KurtHigh) THEN "Platykurtic (Light tails/Flat)"
    ELSE "Mesokurtic (Normal-like)"

\* descriptive_stats: the moments and their descriptions (mean and std are
\* passed through and not modelled).
descriptive_stats(sample) ==
    [called |-> TRUE, Skewness |-> sample.skew, Kurtosis |-> sample.kurt,
     Skew_Desc |-> skew_desc_of(sample.skew), Kurt_Desc |-> kurt_desc_of(sample.kurt)]

\* modality from the number of peaks.
modality_of(num_peaks) ==
    IF num_peaks = 2 THEN "Bimodal"
    ELSE IF num_peaks > 2 THEN "Multimodal"
    ELSE "Unimodal"

\* check_multimodality: (num_peaks, modality)
check_multimodality(sample) ==
    [called |-> TRUE, num_peaks |-> sample.num_peaks, modality |-> modality_of(sample.num_peaks)]

\* The f-string appended when the modality is not Unimodal.
mixture_sentence(modality, num_peaks) ==
    "Data appears " \o modality \o " (" \o ToString(num_peaks)
        \o " peaks). Consider mixture models or splitting data. "

\* As skew_suggestion, with min() >= 0 for the Log/Box-Cox transform.
skew_suggestion_min_ge(sample) ==
    IF Gt(sample.skew, AdviceSkew)
    THEN IF sample.min.kind = "num" /\ sample.min.v >= 0
         THEN "Positive Skew: Consider Log or Box-Cox Transform."
         ELSE "Positive Skew: Consider Square Root (if >=0) or Non-parametric tests."
    ELSE IF Lt(sample.skew, -AdviceSkew)
    THEN "Negative Skew: Consider Reflect & Log or Non-parametric tests."
    ELSE "Consider Non-parametric tests."

\* The suggestion chosen by the skewness and the minimum of the sample.
skew_suggestion(sample) ==
    IF Gt(sample.skew, AdviceSkew)
    THEN IF Gt(sample.min, 0)
         THEN "Positive Skew: Consider Log or Box-Cox Transform."
         ELSE "Positive Skew: Consider Square Root (if >=0) or Non-parametric tests."
    ELSE IF Lt(sample.skew, -AdviceSkew)
    THEN "Negative Skew: Consider Reflect & Log or Non-parametric tests."
    ELSE "Consider Non-parametric tests."

\* check_distribution: the verdict and the advice text (the Lilliefors and
\* Jarque-Bera p-values are passed through and not modelled).
check_distribution(sample) ==
    LET mm == check_multimodality(sample)
        is_normal == Gt(sample.shapiro_p, ShapiroAlpha)
        advice ==
            IF ~is_normal
            THEN "Data is NOT Normal. "
                 \o (IF mm.modality # "Unimodal"
                     THEN mixture_sentence(mm.modality, mm.num_peaks) ELSE "")
                 \o skew_suggestion(sample)
            ELSE "Data appears Normal. Proceed with Parametric Tests."
    IN  [called |-> TRUE, Shapiro_Wilk_p |-> sample.shapiro_p,
         Is_Normal_Assumption |-> is_normal,
         Modality |-> mm.modality, Num_Peaks |-> mm.num_peaks, Advice |-> advice]

(***************************************************************************)
(* Values returned by the last call of each method; NotCalled before it.   *)
(***************************************************************************)
HomogeneityNotCalled ==
    [called |-> FALSE, Levene_p |-> NoneNum, Homogeneity |-> None, levene_args |-> <<>>]

RecommendationNotCalled ==
    [called |-> FALSE, normality_check |-> FALSE, homogeneity_check |-> None,
     method |-> "", advice |-> ""]

\* No EDA_Diagnosis object.
NoSample == [skew |-> NaN, kurt |-> NaN, min |-> NaN, shapiro_p |-> NaN, num_peaks |-> 0]

NoMoments == [called |-> FALSE, Skewness |-> NaN, Kurtosis |-> NaN, Skew_Desc |-> "", Kurt_Desc |-> ""]

NoMultimodality == [called |-> FALSE, num_peaks |-> 0, modality |-> ""]

NoDistribution ==
    [called |-> FALSE, Shapiro_Wilk_p |-> NaN, Is_Normal_Assumption |-> FALSE,
     Modality |-> "", Num_Peaks |-> 0, Advice |-> ""]

(***************************************************************************)
(* Actions of the selector.                                                *)
(***************************************************************************)
\* sel.check_homogeneity(value_col)
CheckHomogeneity ==
    /\ \E p \in levene(group_data(Self)) :
          homogeneity' = check_homogeneity(Self, p)
    /\ UNCHANGED <<data, group_col, id_col, paired, recommendation>>
    /\ UNCHANGED edaVars
    /\ UNCHANGED inferenceVars

\* sel.recommend_method(normality_check, homogeneity_check)
RecommendMethod ==
    /\ \E n \in BOOLEAN, h \in TriState :
          LET r == recommend_method(Self, n, h)
          IN  recommendation' = [called |-> TRUE, normality_check |-> n,
                                 homogeneity_check |-> h,
                                 method |-> r.method, advice |-> r.advice]
    /\ UNCHANGED <<data, group_col, id_col, paired, homogeneity>>
    /\ UNCHANGED edaVars
    /\ UNCHANGED inferenceVars

\* The value run_ttest / run_mann_whitney returned last; none before a call.
InferenceNotCalled ==
    [called |-> FALSE, method |-> "", raised |-> FALSE, error |-> "",
     Test |-> "", p_value |-> NoneNum, compared |-> <<>>]

\* The Inference side before any object of it exists.
NoInference ==
    /\ inf_data = <<>>
    /\ inference = InferenceNotCalled

\* The EDA_Diagnosis side before any object of it exists.
NoEDA ==
    /\ clean_data = NoSample
    /\ moments = NoMoments
    /\ multimodality = NoMultimodality
    /\ distribution = NoDistribution

\* MethodSelector(data, group_col, id_col, paired): __init__ stores its four
\* arguments as they are; nothing has been called yet.
Init ==
    /\ data \in DataValues
    /\ group_col \in GroupColValues
    /\ id_col \in IdColValues
    /\ paired \in BOOLEAN
    /\ homogeneity = HomogeneityNotCalled
    /\ recommendation = RecommendationNotCalled
    /\ NoEDA
    /\ NoInference

Next == CheckHomogeneity \/ RecommendMethod

Spec == Init /\ [][Next]_vars

(***************************************************************************)
(* Actions of EDA_Diagnosis.                                               *)
(***************************************************************************)
\* eda.descriptive_stats()
DescriptiveStats ==
    /\ moments' = descriptive_stats(clean_data)
    /\ UNCHANGED <<clean_data, multimodality, distribution>>
    /\ UNCHANGED selectorVars
    /\ UNCHANGED inferenceVars

\* eda.check_multimodality()
CheckMultimodality ==
    /\ multimodality' = check_multimodality(clean_data)
    /\ UNCHANGED <<clean_data, moments, distribution>>
    /\ UNCHANGED selectorVars
    /\ UNCHANGED inferenceVars

\* eda.check_distribution()
CheckDistribution ==
    /\ distribution' = check_distribution(clean_data)
    /\ UNCHANGED <<clean_data, moments, multimodality>>
    /\ UNCHANGED selectorVars
    /\ UNCHANGED inferenceVars

\* EDA_Diagnosis(data): clean_data = data.dropna(); nothing has been called
\* yet, and no MethodSelector holds a table.
InitEDA ==
    /\ clean_data \in Samples
    /\ moments = NoMoments
    /\ multimodality = NoMultimodality
    /\ distribution = NoDistribution
    /\ data = NotAFrame
    /\ group_col = None
    /\ id_col = None
    /\ paired = FALSE
    /\ homogeneity = HomogeneityNotCalled
    /\ recommendation = RecommendationNotCalled
    /\ NoInference

NextEDA == DescriptiveStats \/ CheckMultimodality \/ CheckDistribution

SpecEDA == InitEDA /\ [][NextEDA]_vars

(***************************************************************************)
(* Inference                                                               *)
(*                                                                         *)
(* inf_data is self.data, always a DataFrame (__init__ converts anything   *)
(* else), modelled by the labels of the column that group_col names.  The  *)
(* value column is not modelled: what scipy returns is a choice among the  *)
(* outcomes it can produce, an exception included.                         *)
(***************************************************************************)
\* An outcome of a scipy test: an exception, or a p-value.
Raises == [raised |-> TRUE, p |-> NoneNum]

Returns(p) == [raised |-> FALSE, p |-> p]

\* stats.ttest_rel / stats.ttest_ind on the samples g1, g2 (rows before
\* dropna).  Paired: arrays of unequal length raise ValueError, and dropna()
\* decides the lengths.  Independent: an empty sample gives NaN.
ttest_outcomes(g1, g2, is_paired) ==
    IF is_paired
    THEN {Raises} \cup {Returns(p) : p \in (IF g1 = {} \/ g2 = {} THEN {NaN} ELSE PValues \cup {NaN})}
    ELSE {Returns(p) : p \in (IF g1 = {} \/ g2 = {} THEN {NaN} ELSE PValues \cup {NaN})}

\* stats.mannwhitneyu on the samples g1, g2: an empty sample raises
\* ValueError in some scipy versions and gives NaN in others.
mannwhitneyu_outcomes(g1, g2) ==
    {Raises} \cup {Returns(p) : p \in (IF g1 = {} \/ g2 = {} THEN {NaN} ELSE PValues \cup {NaN})}

\* The name of the test run_ttest reports.
test_name_of(is_paired, equal_var) ==
    IF is_paired THEN "Paired T-test"
    ELSE IF equal_var THEN "Independent T-test" ELSE "Welch's T-test"

\* What a call leaves when `error` is raised: no result.
Raised(method, error) ==
    [called |-> TRUE, method |-> method, raised |-> TRUE, error |-> error,
     Test |-> "", p_value |-> NoneNum, compared |-> <<>>]

\* run_ttest(value_col, group_col, paired, equal_var), with the outcome of
\* the scipy test when it is reached.  compared records g1 and g2.
run_ttest(rows, is_paired, equal_var, outcome) ==
    LET groups == unique(rows)
    IN  IF Len(groups) # 2
        THEN Raised("run_ttest", "T-test requires exactly 2 groups.")
        ELSE LET g1 == RowsOfGroup(rows, groups[1])
                 g2 == RowsOfGroup(rows, groups[2])
             IN  IF outcome.raised THEN Raised("run_ttest", "scipy")
                 ELSE [called |-> TRUE, method |-> "run_ttest", raised |-> FALSE,
                       error |-> "", Test |-> test_name_of(is_paired, equal_var),
                       p_value |-> outcome.p, compared |-> <<g1, g2>>]

\* run_mann_whitney(value_col, group_col), with the outcome of the scipy
\* test when it is reached.
run_mann_whitney(rows, outcome) ==
    LET groups == unique(rows)
    IN  IF Len(groups) # 2
        THEN Raised("run_mann_whitney", "Mann-Whitney requires 2 groups.")
        ELSE LET g1 == RowsOfGroup(rows, groups[1])
                 g2 == RowsOfGroup(rows, groups[2])
             IN  IF outcome.raised THEN Raised("run_mann_whitney", "scipy")
                 ELSE [called |-> TRUE, method |-> "run_mann_whitney", raised |-> FALSE,
                       error |-> "", Test |-> "Mann-Whitney U",
                       p_value |-> outcome.p, compared |-> <<g1, g2>>]

\* The samples a two-sample procedure would compare: the rows of the first
\* two entries of unique() (no rows where there is no such entry).
first_two(rows) ==
    LET groups == unique(rows)
    IN  [i \in 1..2 |-> IF i <= Len(groups) THEN RowsOfGroup(rows, groups[i]) ELSE {}]

(***************************************************************************)
(* Actions of Inference.                                                   *)
(***************************************************************************)
\* inf.run_ttest(value_col, group_col, paired, equal_var)
RunTtest ==
    /\ \E p \in BOOLEAN, e \in BOOLEAN :
          \E o \in ttest_outcomes(first_two(inf_data)[1], first_two(inf_data)[2], p) :
              inference' = run_ttest(inf_data, p, e, o)
    /\ UNCHANGED inf_data
    /\ UNCHANGED selectorVars
    /\ UNCHANGED edaVars

\* inf.run_mann_whitney(value_col, group_col)
RunMannWhitney ==
    /\ \E o \in mannwhitneyu_outcomes(first_two(inf_data)[1], first_two(inf_data)[2]) :
          inference' = run_mann_whitney(inf_data, o)
    /\ UNCHANGED inf_data
    /\ UNCHANGED selectorVars
    /\ UNCHANGED edaVars

\* Inference(data): self.data is the table; nothing has been called yet, and
\* no MethodSelector or EDA_Diagnosis object exists.
InitInference ==
    /\ inf_data \in SeqsUpTo(Cells, MaxRows)
    /\ inference = InferenceNotCalled
    /\ data = NotAFrame
    /\ group_col = None
    /\ id_col = None
    /\ paired = FALSE
    /\ homogeneity = HomogeneityNotCalled
    /\ recommendation = RecommendationNotCalled
    /\ NoEDA

NextInference == RunTtest \/ RunMannWhitney

SpecInference == InitInference /\ [][NextInference]_vars

(***************************************************************************)
(* Properties of MethodSelector (checked under Spec).                      *)
(***************************************************************************)
\* The number of distinct groups of the data: the distinct labels of the
\* group column, a missing label being no group; none when there is no
\* group column or no table.
DistinctGroups ==
    IF data.frame /\ group_col # None
    THEN Cardinality({data.rows[i] : i \in 1..Len(data.rows)} \ {NA})
    ELSE 0

\* The call whose result recommendation holds took the hierarchical branch
\* off: no id column, and not paired.
Independent == recommendation.called /\ id_col = None /\ ~paired

\* C1: whenever an id column is set, recommend_method returns exactly LMM
\* for normal data and exactly GLMM_or_LMM for non-normal data, whatever
\* paired, the number of groups and homogeneity_check are.
C1_HierarchicalMethod ==
    (recommendation.called /\ id_col # None) =>
        recommendation.method =
            IF recommendation.normality_check THEN "LMM" ELSE "GLMM_or_LMM"

\* C1 happens: an id column (the empty name), paired, three groups,
\* non-normal, non-homogeneous, and GLMM_or_LMM is returned.
C1_Witness ==
    /\ recommendation.called
    /\ id_col = ""
    /\ paired
    /\ DistinctGroups = 3
    /\ ~recommendation.normality_check
    /\ recommendation.homogeneity_check = PyFalse
    /\ recommendation.method = "GLMM_or_LMM"

\* C2: with no id column, not paired and exactly 2 distinct groups in the
\* group column, the method is Independent T-test when normal and
\* homogeneous, Welch's T-test when normal and not homogeneous, and
\* Mann-Whitney U whenever not normal.
C2_TwoGroupsMethod ==
    (Independent /\ DistinctGroups = 2) =>
        recommendation.method =
            IF ~recommendation.normality_check THEN "Mann-Whitney U"
            ELSE IF recommendation.homogeneity_check = PyFalse THEN "Welch's T-test"
            ELSE "Independent T-test"

\* C3: with no id column, not paired and more than 2 distinct groups in the
\* group column, the method is One-way ANOVA when normal and homogeneous,
\* Welch ANOVA when normal and not homogeneous, and Kruskal-Wallis whenever
\* not normal.
C3_ManyGroupsMethod ==
    (Independent /\ DistinctGroups > 2) =>
        recommendation.method =
            IF ~recommendation.normality_check THEN "Kruskal-Wallis"
            ELSE IF recommendation.homogeneity_check = PyFalse THEN "Welch ANOVA"
            ELSE "One-way ANOVA"

\* C4: with no id column and paired set, the method is Paired T-test when
\* normal and Wilcoxon Signed-Rank when not, for every number of groups and
\* every homogeneity value; and a paired method is returned only when no id
\* column is set and paired is.
C4_PairedMethod ==
    recommendation.called =>
        /\ (id_col = None /\ paired) =>
               recommendation.method =
                   IF recommendation.normality_check THEN "Paired T-test"
                   ELSE "Wilcoxon Signed-Rank"
        /\ recommendation.method \in {"Paired T-test", "Wilcoxon Signed-Rank"} =>
               (id_col = None /\ paired)

\* C4 happens: paired, no id column, two groups and unequal variances, and
\* the paired method is returned instead of Welch's T-test.
C4_Witness ==
    /\ recommendation.called
    /\ id_col = None
    /\ paired
    /\ DistinctGroups = 2
    /\ group_col = "Group"
    /\ recommendation.normality_check
    /\ recommendation.homogeneity_check = PyFalse
    /\ recommendation.method = "Paired T-test"

\* C5: with no id column, not paired and at most one distinct group (one or
\* no label, no group column, or no table), the method is One-sample T-test
\* when normal and One-sample Wilcoxon when not; and no call returns the
\* initial method Unknown.
C5_SingleGroupMethod ==
    recommendation.called =>
        /\ recommendation.method # "Unknown"
        /\ (id_col = None /\ ~paired /\ DistinctGroups <= 1) =>
               recommendation.method =
                   IF recommendation.normality_check THEN "One-sample T-test"
                   ELSE "One-sample Wilcoxon"

\* C5 happens: a table whose group column holds no label at all (every row
\* missing), and the one-sample method is returned.
C5_Witness ==
    /\ Independent
    /\ data.frame
    /\ Len(data.rows) > 0
    /\ group_col = "Group"
    /\ DistinctGroups = 0
    /\ ~recommendation.normality_check
    /\ recommendation.method = "One-sample Wilcoxon"

\* C6: homogeneity_check = None is treated exactly as True: for the selector
\* at hand and either normality value the (method, advice) pair returned for
\* None is the pair returned for True, and so is the pair a call made with
\* None did return.
C6_NoneIsTrue ==
    /\ \A n \in BOOLEAN :
          recommend_method(Self, n, None) = recommend_method(Self, n, PyTrue)
    /\ (recommendation.called /\ recommendation.homogeneity_check = None) =>
          [method |-> recommendation.method, advice |-> recommendation.advice]
              = recommend_method(Self, recommendation.normality_check, PyTrue)

\* C6 happens: a call with None in a branch that reads the homogeneity (two
\* groups, normal), where False would have given another method.
C6_Witness ==
    /\ Independent
    /\ recommendation.homogeneity_check = None
    /\ recommendation.normality_check
    /\ recommendation.method = "Independent T-test"
    /\ recommend_method(Self, TRUE, PyFalse).method = "Welch's T-test"

\* C7: in every branch and for both normality values the advice returned is
\* a rationale of the branch, never the initial placeholder.
C7_AdviceNeverPlaceholder ==
    recommendation.called => recommendation.advice # "No recommendation."

\* C10: check_homogeneity returns the null verdict (and runs no test) when
\* group_col is None, the data is no table or the group column holds fewer
\* than 2 distinct groups; only with 2 or more distinct groups it runs
\* Levene's test on one partition per group and returns
\* Homogeneity = (p > 0.05).
C10_NullVerdictBelowTwoGroups ==
    homogeneity.called =>
        IF group_col = None \/ ~data.frame \/ DistinctGroups < 2
        THEN homogeneity = NullVerdict
        ELSE /\ Len(homogeneity.levene_args) = DistinctGroups
             /\ homogeneity.Levene_p.kind # "none"
             /\ homogeneity.Homogeneity
                    = PyBool(homogeneity.Levene_p.kind = "num"
                             /\ homogeneity.Levene_p.v > LeveneAlpha)

(***************************************************************************)
(* Properties of EDA_Diagnosis (checked under SpecEDA).                    *)
(***************************************************************************)
\* The skew suggestion the advice ends with, by the skewness (in quarters)
\* and the minimum of the sample.
SuggestionFor(sample) ==
    IF sample.skew.kind = "num" /\ sample.skew.v > 4 /\ sample.min.v > 0
        THEN "Positive Skew: Consider Log or Box-Cox Transform."
    ELSE IF sample.skew.kind = "num" /\ sample.skew.v > 4 /\ sample.min.v <= 0
        THEN "Positive Skew: Consider Square Root (if >=0) or Non-parametric tests."
    ELSE IF sample.skew.kind = "num" /\ sample.skew.v < -4
        THEN "Negative Skew: Consider Reflect & Log or Non-parametric tests."
    ELSE "Consider Non-parametric tests."

\* C8: the advice of check_distribution is, when the normality assumption
\* holds, exactly the "Data appears Normal" sentence; when it does not,
\* "Data is NOT Normal. ", then the mixture sentence (naming modality and
\* peak count) if and only if the modality is not Unimodal, then exactly one
\* skew suggestion: skew > 1 and min > 0: Log/Box-Cox; skew > 1 and
\* min <= 0: Square Root; skew < -1: Reflect & Log; otherwise the generic
\* one.
C8_AdviceAssembly ==
    distribution.called =>
        distribution.Advice =
            IF distribution.Is_Normal_Assumption
            THEN "Data appears Normal. Proceed with Parametric Tests."
            ELSE "Data is NOT Normal. "
                 \o (IF distribution.Modality # "Unimodal"
                     THEN "Data appears " \o distribution.Modality \o " ("
                          \o ToString(distribution.Num_Peaks)
                          \o " peaks). Consider mixture models or splitting data. "
                     ELSE "")
                 \o SuggestionFor(clean_data)

\* C8 happens: a non-normal bimodal sample with skew > 1 and minimum 0: the
\* mixture sentence and then the Square Root suggestion.
C8_Witness ==
    /\ distribution.called
    /\ ~distribution.Is_Normal_Assumption
    /\ distribution.Modality = "Bimodal"
    /\ clean_data.skew = Num(5)
    /\ clean_data.min = Num(0)
    /\ distribution.Advice =
           "Data is NOT Normal. "
           \o "Data appears Bimodal (2 peaks). Consider mixture models or splitting data. "
           \o "Positive Skew: Consider Square Root (if >=0) or Non-parametric tests."

\* C9: every skewness gets the label of its band: Symmetric in [-0.5, 0.5],
\* Moderately Positively Skewed in (0.5, 1], Moderately Negatively Skewed in
\* [-1, -0.5), Highly Positively / Negatively Skewed above 1 / below -1; and
\* every kurtosis the label of its band: Mesokurtic in [-1, 1], Leptokurtic
\* above 1, Platykurtic below -1 (values in quarters: 4 is 1, 2 is 0.5).
C9_MomentBands ==
    moments.called =>
        /\ moments.Skewness.kind = "num" =>
               LET k == moments.Skewness.v
               IN  moments.Skew_Desc =
                       IF k > 4 THEN "Highly Positively Skewed"
                       ELSE IF k > 2 THEN "Moderately Positively Skewed"
                       ELSE IF k >= -2 THEN "Symmetric"
                       ELSE IF k >= -4 THEN "Moderately Negatively Skewed"
                       ELSE "Highly Negatively Skewed"
        /\ moments.Kurtosis.kind = "num" =>
               LET k == moments.Kurtosis.v
               IN  moments.Kurt_Desc =
                       IF k > 4 THEN "Leptokurtic (Heavy tails/Peaked)"
                       ELSE IF k >= -4 THEN "Mesokurtic (Normal-like)"
                       ELSE "Platykurtic (Light tails/Flat)"

\* C9 happens: the boundary values, skewness exactly 1 and kurtosis exactly
\* -1, get the labels of the inner bands.
C9_Witness ==
    /\ moments.called
    /\ moments.Skewness = Num(4)
    /\ moments.Kurtosis = Num(-4)
    /\ moments.Skew_Desc = "Moderately Positively Skewed"
    /\ moments.Kurt_Desc = "Mesokurtic (Normal-like)"

(***************************************************************************)
(* Properties of Inference (checked under SpecInference).                  *)
(***************************************************************************)
\* The number of distinct groups the group column of the Inference table
\* holds, a missing label being no group.
InferenceGroups == Cardinality({inf_data[i] : i \in 1..Len(inf_data)} \ {NA})

\* C11: run_ttest and run_mann_whitney fail with an error whenever the group
\* column does not hold exactly 2 distinct groups (0, 1, 3 or more): no two
\* samples are compared and no statistic is computed or returned.
C11_WrongGroupCountFails ==
    (inference.called /\ InferenceGroups # 2) =>
        /\ inference.raised
        /\ inference.compared = <<>>
        /\ inference.p_value = NoneNum
        /\ inference.Test = ""

=============================================================================
